---- MODULE Spec2Model ----
(***************************************************************************)
(* Netmotive IP Range Changer (netmotive_ip_range_changer.py).             *)
(*                                                                         *)
(* A Python str is modelled as a sequence of one-character strings, so     *)
(* that strip, split, join, quoting and JSON escaping are computed and not *)
(* assumed.  A JSON value (what json.loads returns, what the store holds)  *)
(* is a record [kind, s, o]: a str (kind "str", text s) or a dict (kind    *)
(* "obj", o the sequence of its [k, v] items in insertion order).          *)
(***************************************************************************)
EXTENDS Integers, Sequences, FiniteSets, TLC

VARIABLES
    pc,        \* "init" before main(), "running" in app.exec(), "died" after an uncaught exception in main()
    died,      \* the exception that ended main(), "" while there is none
    file,      \* profiles.json: [exists, text], text a sequence of JSON tokens
    netsh_out, \* what "netsh interface show interface" prints on this machine
    profiles,  \* MainWindow.profiles
    adapters,  \* the items of MainWindow.adapter_box
    items,     \* the items of MainWindow.profile_list
    cur,       \* the current row of MainWindow.profile_list, 0 for none
    form,      \* the texts of the five QLineEdits
    last,      \* the handler that ran last and what it was given
    msgs,      \* the message boxes the last handler showed
    cmds       \* the processes the last handler ran, each with its exit code

vars == <<pc, died, file, netsh_out, profiles, adapters, items, cur, form, last, msgs, cmds>>

----------------------------------------------------------------------------
(* Python str and list helpers *)

WS == {" ", "\t", "\n"}

RECURSIVE LStrip(_)
LStrip(s) == IF s # <<>> /\ Head(s) \in WS THEN LStrip(Tail(s)) ELSE s

RECURSIVE RStrip(_)
RStrip(s) ==
    IF s # <<>> /\ s[Len(s)] \in WS THEN RStrip(SubSeq(s, 1, Len(s) - 1)) ELSE s

\* str.strip()
Strip(s) == RStrip(LStrip(s))

\* sep.join(parts)
RECURSIVE Join(_, _)
Join(parts, sep) ==
    IF parts = <<>> THEN <<>>
    ELSE IF Len(parts) = 1 THEN parts[1]
    ELSE parts[1] \o sep \o Join(Tail(parts), sep)

\* the pieces of s between the positions whose character is in seps, from cut c on
RECURSIVE PiecesFrom(_, _, _)
PiecesFrom(s, seps, c) ==
    IF c > Len(s) THEN <<>>
    ELSE LET n == CHOOSE d \in (c + 1)..(Len(s) + 1) :
                     /\ d = Len(s) + 1 \/ s[d] \in seps
                     /\ \A e \in (c + 1)..(d - 1) : s[e] \notin seps
         IN  <<SubSeq(s, c + 1, n - 1)>> \o PiecesFrom(s, seps, n)

Pieces(s, seps) == PiecesFrom(s, seps, 0)

NonEmpty(piece) == piece # <<>>

\* str.split(): the maximal runs of non-whitespace characters
Split(s) == SelectSeq(Pieces(s, WS), NonEmpty)

\* tag in line
Contains(line, tag) ==
    \E i \in 1..(Len(line) - Len(tag) + 1) : SubSeq(line, i, i + Len(tag) - 1) = tag

\* list[n:]
Drop(xs, n) == IF n >= Len(xs) THEN <<>> ELSE SubSeq(xs, n + 1, Len(xs))

----------------------------------------------------------------------------
(* JSON values and the dict operations the program uses *)

JStr(s) == [kind |-> "str", s |-> s, o |-> <<>>]
JObj(o) == [kind |-> "obj", s |-> <<>>, o |-> o]

EmptyDict == JObj(<<>>)

\* d.keys()
Keys(d) == [i \in 1..Len(d.o) |-> d.o[i].k]

\* k in d
HasKey(d, k) == \E i \in 1..Len(d.o) : d.o[i].k = k

IndexOf(d, k) == CHOOSE i \in 1..Len(d.o) : d.o[i].k = k

\* d[k], for a key of d
DictGet(d, k) == d.o[IndexOf(d, k)].v

\* d[k] = v: a present key keeps its place, a new key goes last
DictSet(d, k, v) ==
    IF HasKey(d, k)
    THEN JObj([d.o EXCEPT ![IndexOf(d, k)] = [k |-> k, v |-> v]])
    ELSE JObj(Append(d.o, [k |-> k, v |-> v]))

\* del d[k], for a key of d
DictDel(d, k) ==
    LET i == IndexOf(d, k)
    IN  JObj(SubSeq(d.o, 1, i - 1) \o SubSeq(d.o, i + 1, Len(d.o)))

\* bool(v) of a JSON value
Truthy(v) == IF v.kind = "str" THEN v.s # <<>> ELSE v.o # <<>>

----------------------------------------------------------------------------
(* profiles.json as text: a sequence of tokens [t, v].  t is "{", "}", ":", *)
(* ",", "ws" (v the whitespace), "str" (v the characters between the       *)
(* quotes, escapes as written) or "bad" (anything that starts no JSON      *)
(* value of the kinds the program writes).                                 *)

Tok(t, v) == [t |-> t, v |-> v]
LBrace == Tok("{", <<>>)
RBrace == Tok("}", <<>>)
Colon == Tok(":", <<>>)
Comma == Tok(",", <<>>)

\* json.encoder: the escape of one character inside a string
EscapeChar(c) ==
    CASE c = "\"" -> <<"\\", "\"">>
      [] c = "\\" -> <<"\\", "\\">>
      [] c = "\n" -> <<"\\", "n">>
      [] c = "\t" -> <<"\\", "t">>
      [] OTHER -> <<c>>

RECURSIVE Escape(_)
Escape(s) == IF s = <<>> THEN <<>> ELSE EscapeChar(Head(s)) \o Escape(Tail(s))

\* json.decoder.scanstring (strict): [ok, s]
RECURSIVE Unescape(_)
Unescape(e) ==
    IF e = <<>> THEN [ok |-> TRUE, s |-> <<>>]
    ELSE IF Head(e) \in {"\"", "\n", "\t"} THEN [ok |-> FALSE, s |-> <<>>]
    ELSE IF Head(e) # "\\"
         THEN LET r == Unescape(Tail(e))
              IN  [ok |-> r.ok, s |-> <<Head(e)>> \o r.s]
    ELSE IF Len(e) < 2 \/ e[2] \notin {"\"", "\\", "n", "t"}
         THEN [ok |-> FALSE, s |-> <<>>]
    ELSE LET r == Unescape(Tail(Tail(e)))
             c == CASE e[2] = "n" -> "\n" [] e[2] = "t" -> "\t" [] OTHER -> e[2]
         IN  [ok |-> r.ok, s |-> <<c>> \o r.s]

\* the newline and indentation json.dumps(indent=2) writes at a nesting level
RECURSIVE Spaces(_)
Spaces(n) == IF n = 0 THEN <<>> ELSE <<" ">> \o Spaces(n - 1)

Indent == 2

NewlineIndent(level) == Tok("ws", <<"\n">> \o Spaces(Indent * level))

\* json.dumps(v, indent=2) of a value at a nesting level
RECURSIVE Dumps(_, _)
RECURSIVE DumpItems(_, _)
Dumps(v, level) ==
    IF v.kind = "str" THEN <<Tok("str", Escape(v.s))>>
    ELSE IF v.o = <<>> THEN <<LBrace, RBrace>>
    ELSE <<LBrace>> \o DumpItems(v.o, level + 1) \o <<NewlineIndent(level), RBrace>>

DumpItems(o, level) ==
    LET one == <<NewlineIndent(level), Tok("str", Escape(o[1].k)), Colon, Tok("ws", <<" ">>)>>
               \o Dumps(o[1].v, level)
    IN  IF Len(o) = 1 THEN one ELSE one \o <<Comma>> \o DumpItems(Tail(o), level)

\* json.loads: skip whitespace from position i
RECURSIVE SkipWs(_, _)
SkipWs(toks, i) == IF i <= Len(toks) /\ toks[i].t = "ws" THEN SkipWs(toks, i + 1) ELSE i

ParseFail == [ok |-> FALSE, val |-> JStr(<<>>), next |-> 0]

\* json.decoder: one value starting at token i: [ok, val, next]
RECURSIVE ParseValue(_, _)
RECURSIVE ParseItems(_, _, _)
ParseValue(toks, i) ==
    IF i > Len(toks) THEN ParseFail
    ELSE IF toks[i].t = "str"
         THEN LET u == Unescape(toks[i].v)
              IN  IF u.ok THEN [ok |-> TRUE, val |-> JStr(u.s), next |-> i + 1] ELSE ParseFail
    ELSE IF toks[i].t = "{"
         THEN LET j == SkipWs(toks, i + 1)
              IN  IF j <= Len(toks) /\ toks[j].t = "}"
                  THEN [ok |-> TRUE, val |-> EmptyDict, next |-> j + 1]
                  ELSE ParseItems(toks, j, EmptyDict)
    ELSE ParseFail

\* JSONObject: the items of an object from the key at token i on, acc the dict so far
ParseItems(toks, i, acc) ==
    IF i > Len(toks) \/ toks[i].t # "str" THEN ParseFail
    ELSE LET key == Unescape(toks[i].v)
             c == SkipWs(toks, i + 1)
         IN  IF ~key.ok \/ c > Len(toks) \/ toks[c].t # ":" THEN ParseFail
             ELSE LET r == ParseValue(toks, SkipWs(toks, c + 1))
                  IN  IF ~r.ok THEN ParseFail
                      ELSE LET d == DictSet(acc, key.s, r.val)
                               e == SkipWs(toks, r.next)
                           IN  IF e > Len(toks) THEN ParseFail
                               ELSE IF toks[e].t = "}"
                                    THEN [ok |-> TRUE, val |-> d, next |-> e + 1]
                               ELSE IF toks[e].t = ","
                                    THEN ParseItems(toks, SkipWs(toks, e + 1), d)
                               ELSE ParseFail

\* json.loads(text): [ok, val]; ok is FALSE where Python raises ValueError
Loads(toks) ==
    LET r == ParseValue(toks, SkipWs(toks, 1))
    IN  IF r.ok /\ SkipWs(toks, r.next) = Len(toks) + 1
        THEN [ok |-> TRUE, val |-> r.val]
        ELSE [ok |-> FALSE, val |-> JStr(<<>>)]

----------------------------------------------------------------------------
(* The words of the netsh command lines and the profile keys *)

netsh == <<"n", "e", "t", "s", "h">>
interface == <<"i", "n", "t", "e", "r", "f", "a", "c", "e">>
ip == <<"i", "p">>
set == <<"s", "e", "t">>
address == <<"a", "d", "d", "r", "e", "s", "s">>
static == <<"s", "t", "a", "t", "i", "c">>
dns == <<"d", "n", "s">>
dhcp == <<"d", "h", "c", "p">>
mask == <<"m", "a", "s", "k">>
gateway == <<"g", "a", "t", "e", "w", "a", "y">>
metric1 == <<"1">>
DHCP == <<"D", "H", "C", "P">>
Ethernet == <<"E", "t", "h", "e", "r", "n", "e", "t">>
Dedicated == <<"D", "e", "d", "i", "c", "a", "t", "e", "d">>
WiFi == <<"W", "i", "-", "F", "i">>

\* the profile "dhcp"
DhcpProfile == JStr(dhcp)

\* the keys a static profile needs, in the order apply_profile asks for them
RequiredKeys == <<ip, mask, gateway, dns>>

----------------------------------------------------------------------------
(* Message boxes: [icon, title, text, detail]; detail is computed text *)

APP_NAME == "Netmotive IP Range Changer"

Box(icon, text) == [icon |-> icon, title |-> APP_NAME, text |-> text, detail |-> <<>>]

NetshErrorBox(cmd) ==
    [icon |-> "critical", title |-> "Netsh Error", text |-> "Command: ",
     detail |-> Join(cmd, <<" ">>)]

----------------------------------------------------------------------------
(* helpers and netsh builders *)

\* run_netsh(cmd) when the process exits with rc: what ran and the boxes shown
run_netsh(cmd, rc) ==
    [runs |-> <<[cmd |-> cmd, rc |-> rc]>>,
     boxes |-> IF rc # 0 THEN <<NetshErrorBox(cmd)>> ELSE <<>>]

\* str.splitlines() of the command's output: a final line break starts no line
SplitLines(s) ==
    IF s = <<>> THEN <<>>
    ELSE IF s[Len(s)] = "\n"
    THEN Pieces(SubSeq(s, 1, Len(s) - 1), {"\n"})
    ELSE Pieces(s, {"\n"})

AdapterTags == {Dedicated, Ethernet, WiFi}

RECURSIVE AdapterNames(_)
AdapterNames(lines) ==
    IF lines = <<>> THEN <<>>
    ELSE IF \E tag \in AdapterTags : Contains(Head(lines), tag)
         THEN <<Join(Drop(Split(Head(lines)), 3), <<" ">>)>> \o AdapterNames(Tail(lines))
         ELSE AdapterNames(Tail(lines))

\* get_adapters() when "netsh interface show interface" exits 0 and prints out
get_adapters(out) ==
    LET names == AdapterNames(SplitLines(out))
    IN  IF names # <<>> THEN names ELSE <<Ethernet>>

\* load_profiles without its final "return {}": None, here the empty str, when
\* the file is missing or unreadable
load_profiles_unguarded(f) ==
    IF f.exists /\ Loads(f.text).ok
    THEN [val |-> Loads(f.text).val, boxes |-> <<>>]
    ELSE [val |-> JStr(<<>>), boxes |-> <<>>]

\* load_profiles(): [val, boxes]
load_profiles(f) ==
    IF f.exists /\ Loads(f.text).ok
    THEN [val |-> Loads(f.text).val, boxes |-> <<>>]
    ELSE [val |-> EmptyDict,
          boxes |-> IF f.exists
                    THEN <<Box("warning", "profiles.json corrupt - starting fresh.")>>
                    ELSE <<>>]

\* save_profiles(profiles): the file afterwards
save_profiles(p) == [exists |-> TRUE, text |-> Dumps(p, 0)]

q(s) == <<"\"">> \o s \o <<"\"">>

static_cmd(adapter, p) ==
    <<netsh, interface, ip, set, address, q(adapter), static,
      DictGet(p, ip).s, DictGet(p, mask).s, DictGet(p, gateway).s, metric1>>

\* dns_cmd that ignores its dhcp flag
dns_cmd_static(adapter, d, isDhcp) ==
    <<netsh, interface, ip, set, dns, q(adapter), static, d>>

dns_cmd(adapter, d, isDhcp) ==
    IF isDhcp
    THEN <<netsh, interface, ip, set, dns, q(adapter), dhcp>>
    ELSE <<netsh, interface, ip, set, dns, q(adapter), static, d>>

dhcp_cmd(adapter) == <<netsh, interface, ip, set, address, q(adapter), dhcp>>

\* profile.get(k) taken for "k in profile"
GetTruthy_presence(p, k) == HasKey(p, k)

\* profile.get(k) is truthy
GetTruthy(p, k) == HasKey(p, k) /\ Truthy(DictGet(p, k))

\* every argument static_cmd and dns_cmd take from the profile is a str
IsStr(p, k) == DictGet(p, k).kind = "str"

\* apply_profile that gives up after a command that failed
apply_profile_abort(adapter, profile, rcs) ==
    IF profile = DhcpProfile
    THEN LET r1 == run_netsh(dhcp_cmd(adapter), rcs[1])
             r2 == run_netsh(dns_cmd(adapter, <<>>, TRUE), rcs[2])
         IN  IF rcs[1] # 0
             THEN [runs |-> r1.runs, boxes |-> r1.boxes, raised |-> ""]
             ELSE [runs |-> r1.runs \o r2.runs, boxes |-> r1.boxes \o r2.boxes, raised |-> ""]
    ELSE IF profile.kind = "str"
         THEN [runs |-> <<>>, boxes |-> <<>>, raised |-> "AttributeError"]
    ELSE IF ~ \A i \in 1..Len(RequiredKeys) : GetTruthy(profile, RequiredKeys[i])
         THEN [runs |-> <<>>,
               boxes |-> <<Box("warning", "Static profile requires IP / Mask / Gateway / DNS.")>>,
               raised |-> ""]
    ELSE IF ~ (IsStr(profile, ip) /\ IsStr(profile, mask) /\ IsStr(profile, gateway))
         THEN [runs |-> <<>>, boxes |-> <<>>, raised |-> "TypeError"]
    ELSE LET r1 == run_netsh(static_cmd(adapter, profile), rcs[1])
         IN  IF ~ IsStr(profile, dns)
             THEN [runs |-> r1.runs, boxes |-> r1.boxes, raised |-> "TypeError"]
             ELSE IF rcs[1] # 0
             THEN [runs |-> r1.runs, boxes |-> r1.boxes, raised |-> ""]
             ELSE LET r2 == run_netsh(dns_cmd(adapter, DictGet(profile, dns).s, FALSE), rcs[2])
                  IN  [runs |-> r1.runs \o r2.runs, boxes |-> r1.boxes \o r2.boxes,
                       raised |-> ""]

\* apply_profile(adapter, profile) when the two processes it may start exit with
\* rcs[1] and rcs[2]: [runs, boxes, raised]
apply_profile(adapter, profile, rcs) ==
    IF profile = DhcpProfile
    THEN LET r1 == run_netsh(dhcp_cmd(adapter), rcs[1])
             r2 == run_netsh(dns_cmd(adapter, <<>>, TRUE), rcs[2])
         IN  [runs |-> r1.runs \o r2.runs, boxes |-> r1.boxes \o r2.boxes, raised |-> ""]
    ELSE IF profile.kind = "str"
         THEN [runs |-> <<>>, boxes |-> <<>>, raised |-> "AttributeError"]
    ELSE IF ~ \A i \in 1..Len(RequiredKeys) : GetTruthy(profile, RequiredKeys[i])
         THEN [runs |-> <<>>,
               boxes |-> <<Box("warning", "Static profile requires IP / Mask / Gateway / DNS.")>>,
               raised |-> ""]
    ELSE IF ~ (IsStr(profile, ip) /\ IsStr(profile, mask) /\ IsStr(profile, gateway))
         THEN [runs |-> <<>>, boxes |-> <<>>, raised |-> "TypeError"]
    ELSE LET r1 == run_netsh(static_cmd(adapter, profile), rcs[1])
         IN  IF ~ IsStr(profile, dns)
             THEN [runs |-> r1.runs, boxes |-> r1.boxes, raised |-> "TypeError"]
             ELSE LET r2 == run_netsh(dns_cmd(adapter, DictGet(profile, dns).s, FALSE), rcs[2])
                  IN  [runs |-> r1.runs \o r2.runs, boxes |-> r1.boxes \o r2.boxes,
                       raised |-> ""]

----------------------------------------------------------------------------
(* MainWindow: the form and the pure parts of its slots *)

EmptyForm == [profile_name |-> <<>>, ip |-> <<>>, mask |-> <<>>, gw |-> <<>>, dns |-> <<>>]

\* _collect_fields that leaves the dns field out
collect_fields_nodns(f) ==
    JObj(<<[k |-> ip, v |-> JStr(Strip(f.ip))],
           [k |-> mask, v |-> JStr(Strip(f.mask))],
           [k |-> gateway, v |-> JStr(Strip(f.gw))]>>)

\* MainWindow._collect_fields()
collect_fields(f) ==
    JObj(<<[k |-> ip, v |-> JStr(Strip(f.ip))],
           [k |-> mask, v |-> JStr(Strip(f.mask))],
           [k |-> gateway, v |-> JStr(Strip(f.gw))],
           [k |-> dns, v |-> JStr(Strip(f.dns))]>>)

\* prof[k] can be handed to QLineEdit.setText
Settable(prof, k) == HasKey(prof, k) /\ DictGet(prof, k).kind = "str"

LoadError(prof, k) == IF HasKey(prof, k) THEN "TypeError" ELSE "KeyError"

\* MainWindow._load_profile(item): [form, raised]; the setText calls made before an
\* exception keep their effect
load_profile(f, name, prof) ==
    LET f0 == [f EXCEPT !.profile_name = name]
    IN  IF prof = DhcpProfile
        THEN [form |-> [EmptyForm EXCEPT !.profile_name = name], raised |-> ""]
        ELSE IF prof.kind = "str" THEN [form |-> f0, raised |-> "TypeError"]
        ELSE IF ~ Settable(prof, ip) THEN [form |-> f0, raised |-> LoadError(prof, ip)]
        ELSE LET f1 == [f0 EXCEPT !.ip = DictGet(prof, ip).s]
             IN  IF ~ Settable(prof, mask) THEN [form |-> f1, raised |-> LoadError(prof, mask)]
        ELSE LET f2 == [f1 EXCEPT !.mask = DictGet(prof, mask).s]
             IN  IF ~ Settable(prof, gateway)
                 THEN [form |-> f2, raised |-> LoadError(prof, gateway)]
        ELSE LET f3 == [f2 EXCEPT !.gw = DictGet(prof, gateway).s]
             IN  IF ~ Settable(prof, dns) THEN [form |-> f3, raised |-> LoadError(prof, dns)]
                 ELSE [form |-> [f3 EXCEPT !.dns = DictGet(prof, dns).s], raised |-> ""]

\* MainWindow._save_and_refresh(): the file, the list's items and its current row
save_and_refresh(p) == [file |-> save_profiles(p), items |-> Keys(p), cur |-> 0]

\* _add_profile without its "name in self.profiles" test
add_profile_overwrite(p, f) ==
    LET name == Strip(f.profile_name)
    IN  IF name = <<>>
        THEN [name |-> name, profiles |-> p, saved |-> FALSE,
              boxes |-> <<Box("warning", "Name required.")>>]
        ELSE [name |-> name, profiles |-> DictSet(p, name, collect_fields(f)),
              saved |-> TRUE, boxes |-> <<>>]

\* MainWindow._add_profile(): [name, profiles, saved, boxes]
add_profile(p, f) ==
    LET name == Strip(f.profile_name)
    IN  IF name = <<>>
        THEN [name |-> name, profiles |-> p, saved |-> FALSE,
              boxes |-> <<Box("warning", "Name required.")>>]
        ELSE IF HasKey(p, name)
        THEN [name |-> name, profiles |-> p, saved |-> FALSE,
              boxes |-> <<Box("warning", "Profile exists - use Update.")>>]
        ELSE [name |-> name, profiles |-> DictSet(p, name, collect_fields(f)),
              saved |-> TRUE, boxes |-> <<>>]

\* _update_profile without its call of _save_and_refresh
update_profile_unsaved(p, f) ==
    LET name == Strip(f.profile_name)
    IN  IF ~ HasKey(p, name)
        THEN [name |-> name, profiles |-> p, saved |-> FALSE,
              boxes |-> <<Box("warning", "Select an existing profile.")>>]
        ELSE [name |-> name, profiles |-> DictSet(p, name, collect_fields(f)),
              saved |-> FALSE, boxes |-> <<>>]

\* _update_profile without its "name not in self.profiles" test
update_profile_upsert(p, f) ==
    [name |-> Strip(f.profile_name),
     profiles |-> DictSet(p, Strip(f.profile_name), collect_fields(f)),
     saved |-> TRUE, boxes |-> <<>>]

\* MainWindow._update_profile(): [name, profiles, saved, boxes]
update_profile(p, f) ==
    LET name == Strip(f.profile_name)
    IN  IF ~ HasKey(p, name)
        THEN [name |-> name, profiles |-> p, saved |-> FALSE,
              boxes |-> <<Box("warning", "Select an existing profile.")>>]
        ELSE [name |-> name, profiles |-> DictSet(p, name, collect_fields(f)),
              saved |-> TRUE, boxes |-> <<>>]

QuestionBox(name) ==
    [icon |-> "question", title |-> APP_NAME, text |-> "Delete ?", detail |-> name]

\* _delete_profile that does not look at the answer
delete_profile_unconfirmed(p, its, row, yes) ==
    IF row = 0
    THEN [name |-> <<>>, profiles |-> p, saved |-> FALSE, boxes |-> <<>>]
    ELSE [name |-> its[row], profiles |-> DictDel(p, its[row]), saved |-> TRUE,
          boxes |-> <<QuestionBox(its[row])>>]

\* MainWindow._delete_profile() with the list's items and current row, and the
\* user's answer to the question: [name, profiles, saved, boxes]
delete_profile(p, its, row, yes) ==
    IF row = 0
    THEN [name |-> <<>>, profiles |-> p, saved |-> FALSE, boxes |-> <<>>]
    ELSE IF yes
    THEN [name |-> its[row], profiles |-> DictDel(p, its[row]), saved |-> TRUE,
          boxes |-> <<QuestionBox(its[row])>>]
    ELSE [name |-> its[row], profiles |-> p, saved |-> FALSE,
          boxes |-> <<QuestionBox(its[row])>>]

\* MainWindow._add_dhcp_profile(): [name, profiles, saved, boxes]
add_dhcp_profile(p, f) ==
    LET name == IF Strip(f.profile_name) # <<>> THEN Strip(f.profile_name) ELSE DHCP
    IN  IF HasKey(p, name)
        THEN [name |-> name, profiles |-> p, saved |-> FALSE,
              boxes |-> <<Box("warning", "Name exists.")>>]
        ELSE [name |-> name, profiles |-> DictSet(p, name, DhcpProfile),
              saved |-> TRUE, boxes |-> <<>>]

AppliedBox(name) ==
    [icon |-> "information", title |-> APP_NAME, text |-> "Applied ", detail |-> name]

----------------------------------------------------------------------------
(* The inputs: what the user types, what netsh prints, what profiles.json holds *)

\* the exit codes of a process are 0..MaxExit
MaxExit == 1
ExitCodes == 0..MaxExit

NameTexts == {<<>>, <<" ", "a">>, <<"b", "\"">>}

FullFields == [ip |-> <<" ", "1">>, mask |-> <<"2">>, gw |-> <<"3">>, dns |-> <<"4">>]

\* the user fills the address fields, or empties them and leaves a blank in one
FieldTexts == {FullFields, [ip |-> <<" ">>, mask |-> <<>>, gw |-> <<>>, dns |-> <<>>]}

Enabled == <<"E", "n", "a", "b", "l", "e", "d">>
Connected == <<"C", "o", "n", "n", "e", "c", "t", "e", "d">>
Loopback == <<"L", "o", "o", "p", "b", "a", "c", "k">>

Line(words) == Join(words, <<" ", " ">>)

\* no line names an adapter
LoopbackOnly == Line(<<Enabled, Connected, Loopback, Loopback>>)

\* two adapters, one with a space in its name
TwoAdapters ==
    Join(<<LoopbackOnly,
           Line(<<Enabled, Connected, Dedicated, Ethernet, <<"2">>>>),
           Line(<<Enabled, Connected, Dedicated, WiFi>>)>>, <<"\n">>)

NetshOutputs == {LoopbackOnly, TwoAdapters}

NoFile == [exists |-> FALSE, text |-> <<>>]

\* contents json.loads rejects
CorruptTexts ==
    {<<>>,
     <<LBrace>>,
     <<Tok("bad", <<"x">>)>>,
     <<LBrace, Tok("str", <<"a">>), Colon, Tok("str", dhcp), Comma, RBrace>>,
     <<LBrace, RBrace, RBrace>>,
     <<LBrace, Tok("str", <<"a", "\\">>), Colon, Tok("str", dhcp), RBrace>>}

\* a store the program saved in an earlier run
AppWritten ==
    JObj(<<[k |-> <<"a">>, v |-> collect_fields(FullFields)], [k |-> DHCP, v |-> DhcpProfile]>>)

SeedFiles ==
    {NoFile} \cup {[exists |-> TRUE, text |-> t] : t \in CorruptTexts}
    \cup {[exists |-> TRUE, text |-> <<Tok("str", dhcp)>>], save_profiles(AppWritten)}

----------------------------------------------------------------------------
(* The state machine *)

NoHandler ==
    [op |-> "", name |-> <<>>, row |-> 0, adapter |-> <<>>, yes |-> FALSE, saved |-> FALSE,
     raised |-> ""]

Handler(op, name) == [NoHandler EXCEPT !.op = op, !.name = name]

Init ==
    /\ pc = "init"
    /\ died = ""
    /\ file \in SeedFiles
    /\ netsh_out = TwoAdapters
    /\ profiles = EmptyDict
    /\ adapters = <<>>
    /\ items = <<>>
    /\ cur = 0
    /\ form = EmptyForm
    /\ last = NoHandler
    /\ msgs = <<>>
    /\ cmds = <<>>

\* main() up to app.exec(): MainWindow.__init__ loads the store, fills the adapter
\* box from get_adapters() and fills the list
Start ==
    /\ pc = "init"
    /\ \E rc \in ExitCodes :
         LET lp == load_profiles(file)
         IN  /\ profiles' = lp.val
             /\ msgs' = lp.boxes
             /\ cmds' = <<[cmd |-> <<netsh, interface, <<"s", "h", "o", "w">>, interface>>,
                           rc |-> rc]>>
             /\ IF rc # 0
                THEN /\ pc' = "died"
                     /\ died' = "CalledProcessError"
                     /\ adapters' = <<>>
                     /\ items' = <<>>
                ELSE /\ adapters' = get_adapters(netsh_out)
                     /\ IF lp.val.kind = "obj"
                        THEN pc' = "running" /\ died' = "" /\ items' = Keys(lp.val)
                        ELSE pc' = "died" /\ died' = "AttributeError" /\ items' = <<>>
    /\ last' = Handler("start", <<>>)
    /\ UNCHANGED <<file, netsh_out, cur, form>>

\* the user types into the name field
TypeName ==
    /\ pc = "running"
    /\ \E t \in NameTexts : form' = [form EXCEPT !.profile_name = t]
    /\ last' = NoHandler /\ msgs' = <<>> /\ cmds' = <<>>
    /\ UNCHANGED <<pc, died, file, netsh_out, profiles, adapters, items, cur>>

\* the user fills the four address fields
TypeFields ==
    /\ pc = "running"
    /\ \E t \in FieldTexts :
         form' = [form EXCEPT !.ip = t.ip, !.mask = t.mask, !.gw = t.gw, !.dns = t.dns]
    /\ last' = NoHandler /\ msgs' = <<>> /\ cmds' = <<>>
    /\ UNCHANGED <<pc, died, file, netsh_out, profiles, adapters, items, cur>>

\* the user moves the list's current row with the keyboard: no itemClicked
SelectRow ==
    /\ pc = "running"
    /\ \E i \in 1..Len(items) : cur' = i
    /\ last' = NoHandler /\ msgs' = <<>> /\ cmds' = <<>>
    /\ UNCHANGED <<pc, died, file, netsh_out, profiles, adapters, items, form>>

\* the user clicks a row: it becomes current and itemClicked runs _load_profile
ClickItem ==
    /\ pc = "running"
    /\ \E i \in 1..Len(items) :
         LET r == load_profile(form, items[i], DictGet(profiles, items[i]))
         IN  /\ cur' = i
             /\ form' = r.form
             /\ last' = [Handler("load", items[i]) EXCEPT !.row = i, !.raised = r.raised]
    /\ msgs' = <<>> /\ cmds' = <<>>
    /\ UNCHANGED <<pc, died, file, netsh_out, profiles, adapters, items>>

\* what a CRUD slot leaves behind: the store, and after _save_and_refresh the file,
\* the list and its current row
Commit(op, row, yes, r) ==
    /\ profiles' = r.profiles
    /\ IF r.saved
       THEN /\ file' = save_and_refresh(r.profiles).file
            /\ items' = save_and_refresh(r.profiles).items
            /\ cur' = save_and_refresh(r.profiles).cur
       ELSE UNCHANGED <<file, items, cur>>
    /\ last' = [Handler(op, r.name) EXCEPT !.row = row, !.yes = yes, !.saved = r.saved]
    /\ msgs' = r.boxes
    /\ cmds' = <<>>
    /\ UNCHANGED <<pc, died, netsh_out, adapters, form>>

\* the Add button
AddProfile == pc = "running" /\ Commit("add", 0, FALSE, add_profile(profiles, form))

\* the Update button
UpdateProfile == pc = "running" /\ Commit("update", 0, FALSE, update_profile(profiles, form))

\* the Delete button; the user answers the question with Yes or not
DeleteProfile ==
    /\ pc = "running"
    /\ \E yes \in BOOLEAN :
         Commit("delete", cur, yes /\ cur # 0, delete_profile(profiles, items, cur, yes))

\* the Add DHCP button
AddDhcpProfile ==
    pc = "running" /\ Commit("add_dhcp", 0, FALSE, add_dhcp_profile(profiles, form))

\* the Apply button; adapter is the adapter box's current text
ApplyProfile ==
    /\ pc = "running"
    /\ IF cur = 0
       THEN /\ last' = Handler("apply", <<>>)
            /\ msgs' = <<Box("information", "Select a profile.")>>
            /\ cmds' = <<>>
       ELSE \E adapter \in {adapters[i] : i \in 1..Len(adapters)}, rcs \in ExitCodes \X ExitCodes :
              LET r == apply_profile(adapter, DictGet(profiles, items[cur]), rcs)
              IN  /\ last' = [Handler("apply", items[cur]) EXCEPT
                                !.row = cur, !.adapter = adapter, !.raised = r.raised]
                  /\ cmds' = r.runs
                  /\ msgs' = IF r.raised = ""
                             THEN r.boxes \o <<AppliedBox(items[cur])>>
                             ELSE r.boxes
    /\ UNCHANGED <<pc, died, file, netsh_out, profiles, adapters, items, cur, form>>

Next ==
    \/ Start
    \/ TypeName
    \/ TypeFields
    \/ SelectRow
    \/ ClickItem
    \/ AddProfile
    \/ UpdateProfile
    \/ DeleteProfile
    \/ AddDhcpProfile
    \/ ApplyProfile

\* the whole application
Spec == Init /\ [][Next]_vars

\* The store: every action but the Apply button.  ApplyProfile changes last, msgs
\* and cmds only, and every action overwrites the three, so leaving it out loses
\* no value of the store, the file, the list or the form.
NextStore ==
    \/ Start
    \/ TypeName
    \/ TypeFields
    \/ SelectRow
    \/ ClickItem
    \/ AddProfile
    \/ UpdateProfile
    \/ DeleteProfile
    \/ AddDhcpProfile

SpecStore == Init /\ [][NextStore]_vars

\* The store of a first run: profiles.json is missing or unreadable, the store
\* starts empty.
InitFresh == Init /\ load_profiles(file).val = EmptyDict

SpecFresh == InitFresh /\ [][NextStore]_vars

\* apply_profile on profiles of every shape: profiles.json is written by hand and
\* holds one profile, the user selects it and presses Apply.
FieldValues(k) == {JStr(<<>>), JStr(<<Head(k)>>)}

RECURSIVE RecordsOver(_)
RecordsOver(keys) ==
    IF keys = <<>> THEN {<<>>}
    ELSE LET rest == RecordsOver(Tail(keys))
         IN  rest \cup {<<[k |-> Head(keys), v |-> v]>> \o r :
                              v \in FieldValues(Head(keys)), r \in rest}

ApplyProfiles ==
    {JObj(o) : o \in RecordsOver(RequiredKeys)}
    \cup {DhcpProfile, JStr(<<"x">>),
          JObj(<<[k |-> ip, v |-> JStr(<<"i">>)], [k |-> mask, v |-> JStr(<<"m">>)],
                 [k |-> gateway, v |-> JStr(<<"g">>)],
                 [k |-> dns, v |-> JObj(<<[k |-> <<"1">>, v |-> JStr(<<"d">>)]>>)]>>)}

InitApply ==
    /\ pc = "init"
    /\ died = ""
    /\ file \in {save_profiles(JObj(<<[k |-> <<"p">>, v |-> p]>>)) : p \in ApplyProfiles}
    /\ netsh_out \in NetshOutputs
    /\ profiles = EmptyDict
    /\ adapters = <<>>
    /\ items = <<>>
    /\ cur = 0
    /\ form = EmptyForm
    /\ last = NoHandler
    /\ msgs = <<>>
    /\ cmds = <<>>

NextApply ==
    \/ Start
    \/ SelectRow
    \/ ClickItem
    \/ ApplyProfile

SpecApply == InitApply /\ [][NextApply]_vars

----------------------------------------------------------------------------
(* The claims *)

\* the profile the Apply button was pressed on
Applied == DictGet(profiles, last.name)

AppliedARow == last.op = "apply" /\ last.row # 0

\* "adapter" between double quotes
Quoted(adapter) == <<"\"">> \o adapter \o <<"\"">>

FieldMissingOrEmpty(p, k) == ~ HasKey(p, k) \/ DictGet(p, k) = JStr(<<>>)

FieldFilled(p, k) == HasKey(p, k) /\ DictGet(p, k).kind = "str" /\ DictGet(p, k).s # <<>>

\* C1: applying a static profile in which ip, mask, gateway or dns is empty or
\* missing runs no process at all, whatever the adapter.
C1_IncompleteStaticRunsNothing ==
    (/\ AppliedARow
     /\ Applied.kind = "obj"
     /\ \E k \in {ip, mask, gateway, dns} : FieldMissingOrEmpty(Applied, k))
    => cmds = <<>>

C1_Witness ==
    /\ AppliedARow
    /\ Applied.kind = "obj"
    /\ FieldFilled(Applied, ip) /\ FieldFilled(Applied, mask) /\ FieldFilled(Applied, gateway)
    /\ HasKey(Applied, dns) /\ DictGet(Applied, dns) = JStr(<<>>)
    /\ cmds = <<>>
    /\ \E i \in 1..Len(msgs) : msgs[i].icon = "warning"

\* C2 as stated: every static profile of a store that started empty has ip, mask,
\* gateway and dns, none of them empty.
C2_StaticProfilesAreFilled ==
    pc = "running" =>
        \A i \in 1..Len(profiles.o) :
            profiles.o[i].v.kind = "obj" =>
                \A k \in {ip, mask, gateway, dns} : FieldFilled(profiles.o[i].v, k)

\* C2 as amended: every static profile of a store that started empty has the four
\* keys ip, mask, gateway and dns, each with a str that may be empty.
C2_StaticProfilesHaveFourKeys ==
    pc = "running" =>
        \A i \in 1..Len(profiles.o) :
            profiles.o[i].v.kind = "obj" =>
                \A k \in {ip, mask, gateway, dns} :
                    HasKey(profiles.o[i].v, k) /\ DictGet(profiles.o[i].v, k).kind = "str"

C2_Witness ==
    /\ pc = "running"
    /\ last.op = "add" /\ last.saved
    /\ DictGet(profiles, last.name).kind = "obj"
    /\ DictGet(DictGet(profiles, last.name), dns) = JStr(<<>>)
    /\ \E i \in 1..Len(profiles.o) :
         /\ profiles.o[i].v.kind = "obj"
         /\ \A k \in {ip, mask, gateway, dns} : FieldFilled(profiles.o[i].v, k)

\* C3: a process that exits non-zero, the adapter enumeration of start-up or a
\* command of Apply, never ends the application.
C3_NoCommandFailureIsFatal ==
    (\E i \in 1..Len(cmds) : cmds[i].rc # 0) => pc # "died"

\* C4: applying "dhcp" runs exactly two processes, "set address ... dhcp" and then
\* "set dns ... dhcp", both on the chosen adapter, whatever the exit codes.
C4_DhcpRunsAddressThenDns ==
    (AppliedARow /\ Applied = DhcpProfile) =>
        /\ Len(cmds) = 2
        /\ cmds[1].cmd = <<netsh, interface, ip, set, address, Quoted(last.adapter), dhcp>>
        /\ cmds[2].cmd = <<netsh, interface, ip, set, dns, Quoted(last.adapter), dhcp>>

C4_Witness ==
    /\ AppliedARow /\ Applied = DhcpProfile
    /\ last.adapter = Ethernet \o <<" ", "2">>
    /\ Len(cmds) = 2
    /\ cmds[1].rc # 0

IsCritical(box) == box.icon = "critical"

HasFailed(run) == run.rc # 0

\* C5: applying a static profile whose four fields are filled runs exactly two
\* processes, the static address and then the static DNS, also when the first
\* fails, and shows one error box for each process that failed, naming it.
C5_StaticRunsBothAndReportsEach ==
    (/\ AppliedARow
     /\ Applied.kind = "obj"
     /\ \A k \in {ip, mask, gateway, dns} : FieldFilled(Applied, k))
    => /\ Len(cmds) = 2
       /\ cmds[1].cmd = <<netsh, interface, ip, set, address, Quoted(last.adapter), static,
                          DictGet(Applied, ip).s, DictGet(Applied, mask).s,
                          DictGet(Applied, gateway).s, <<"1">>>>
       /\ cmds[2].cmd = <<netsh, interface, ip, set, dns, Quoted(last.adapter), static,
                          DictGet(Applied, dns).s>>
       /\ LET failed == SelectSeq(cmds, HasFailed)
              errors == SelectSeq(msgs, IsCritical)
          IN  /\ Len(errors) = Len(failed)
              /\ \A i \in 1..Len(failed) :
                   /\ errors[i].title = "Netsh Error"
                   /\ errors[i].detail = Join(failed[i].cmd, <<" ">>)

C5_Witness ==
    /\ AppliedARow
    /\ Applied.kind = "obj"
    /\ \A k \in {ip, mask, gateway, dns} : FieldFilled(Applied, k)
    /\ Len(cmds) = 2
    /\ cmds[1].rc # 0 /\ cmds[2].rc # 0
    /\ Len(SelectSeq(msgs, IsCritical)) = 2

\* C6: Add and Add DHCP under a name that is a key of the store change neither the
\* store nor the file.
C6_DuplicateAddChangesNothing ==
    [][(last'.op \in {"add", "add_dhcp"} /\ HasKey(profiles, last'.name))
         => (profiles' = profiles /\ file' = file /\ ~ last'.saved)]_vars

C6_Witness ==
    /\ last.op = "add" /\ ~ last.saved
    /\ form.profile_name # last.name
    /\ HasKey(profiles, last.name)
    /\ DictGet(profiles, last.name) = DhcpProfile
    /\ \E i \in 1..Len(msgs) : msgs[i].icon = "warning"

\* C7: a Delete answered Yes removes the selected key and nothing else, the other
\* entries keep their values and their order, and the file then holds the
\* remaining store; a Delete answered otherwise, or with no row selected, changes
\* neither the store nor the file.
C7_DeleteRemovesOnlyTheSelected ==
    [][last'.op = "delete" =>
         IF last'.yes
         THEN /\ cur # 0
              /\ last'.name = items[cur]
              /\ HasKey(profiles, last'.name)
              /\ Len(profiles'.o) = Len(profiles.o) - 1
              /\ \A j \in 1..Len(profiles'.o) :
                   profiles'.o[j] = profiles.o[IF j < IndexOf(profiles, last'.name)
                                               THEN j ELSE j + 1]
              /\ file'.exists
              /\ Loads(file'.text) = [ok |-> TRUE, val |-> profiles']
         ELSE profiles' = profiles /\ file' = file]_vars

C7_Witness ==
    /\ last.op = "delete" /\ last.yes
    /\ last.row = 2
    /\ Len(profiles.o) = 2
    /\ ~ HasKey(profiles, last.name)

\* C8: load_profiles() on the file returns the store in memory: the same names in
\* the same order with the same records; after a handler that saved, the file
\* exists and parses.
C8_FileReloadsToStore ==
    pc = "running" =>
        /\ load_profiles(file).val = profiles
        /\ last.saved => (file.exists /\ Loads(file.text).ok /\ load_profiles(file).boxes = <<>>)

C8_Witness ==
    /\ pc = "running"
    /\ last.saved
    /\ Len(profiles.o) = 3
    /\ HasKey(profiles, <<"b", "\"">>)
    /\ \E i \in 1..Len(profiles.o) :
         /\ profiles.o[i].v.kind = "obj"
         /\ \A k \in {ip, mask, gateway, dns} : FieldFilled(profiles.o[i].v, k)
    /\ load_profiles(file).val = profiles

\* C9: on a profiles.json that is missing, or present and not JSON, load_profiles()
\* returns the empty store and raises nothing: start-up goes on.
C9_UnreadableFileLoadsEmpty ==
    (last.op = "start" /\ (~ file.exists \/ file.text \in CorruptTexts))
    => /\ profiles = EmptyDict
       /\ died \in {"", "CalledProcessError"}
       /\ cmds[1].rc = 0 => pc = "running"

C9_Witness ==
    /\ last.op = "start"
    /\ file.exists /\ file.text \in CorruptTexts /\ file.text # <<>>
    /\ pc = "running"
    /\ profiles = EmptyDict
    /\ \E i \in 1..Len(msgs) : msgs[i].icon = "warning"

\* C10: Update under a name that is no key of the store warns and changes neither
\* the store nor the file; under a key it replaces that key's record by the form's
\* and leaves the keys, their order and every other record as they were.
C10_UpdateTouchesOnlyItsKey ==
    [][last'.op = "update" =>
         IF ~ HasKey(profiles, last'.name)
         THEN profiles' = profiles /\ file' = file /\ ~ last'.saved /\ msgs' # <<>>
         ELSE /\ Keys(profiles') = Keys(profiles)
              /\ \A i \in 1..Len(profiles.o) :
                   profiles.o[i].k # last'.name => profiles'.o[i] = profiles.o[i]
              /\ DictGet(profiles', last'.name) =
                   JObj(<<[k |-> ip, v |-> JStr(Strip(form.ip))],
                          [k |-> mask, v |-> JStr(Strip(form.mask))],
                          [k |-> gateway, v |-> JStr(Strip(form.gw))],
                          [k |-> dns, v |-> JStr(Strip(form.dns))]>>)]_vars

C10_Witness ==
    /\ last.op = "update" /\ last.saved
    /\ Len(profiles.o) >= 2
    /\ profiles.o[1].k = last.name
    /\ profiles.o[1].v.kind = "obj"
    /\ profiles.o[2].v = DhcpProfile

====
